---------------------------- MODULE Spec2Model ----------------------------
(***************************************************************************)
(* Render webhook -> Discord notification worker (src/app.ts).             *)
(*                                                                         *)
(* JavaScript strings that the code inspects character by character are    *)
(* sequences of one-character strings; an emoji and the em dash are one    *)
(* element each.  An optional value (undefined / null / absent property)   *)
(* is None, a present value v is Some(v).                                  *)
(***************************************************************************)
EXTENDS Integers, Sequences, FiniteSets, TLC

None == << >>
Some(v) == <<v>>

\* JavaScript truthiness of an optional string, number, boolean.
TruthyStr(o) == o # None /\ o[1] # << >>
TruthyNum(o) == o # None /\ o[1] # 0
TruthyBool(o) == o # None /\ o[1] = TRUE

---------------------------------------------------------------------------
\* String literals of the source.
DEFAULT_RENDER_API_URL == <<"h", "t", "t", "p", "s", ":", "/", "/", "a", "p", "i", ".", "r", "e", "n", "d", "e", "r", ".", "c", "o", "m", "/", "v", "1">>
s_failed == <<"f", "a", "i", "l", "e", "d">>
s_canceled == <<"c", "a", "n", "c", "e", "l", "e", "d">>
s_succeeded == <<"s", "u", "c", "c", "e", "e", "d", "e", "d">>
s_Failed == <<" ", "F", "a", "i", "l", "e", "d">>
s_Canceled == <<" ", "C", "a", "n", "c", "e", "l", "e", "d">>
s_Succeeded == <<" ", "S", "u", "c", "c", "e", "e", "d", "e", "d">>
s_ExitedWithStatus == <<"E", "x", "i", "t", "e", "d", " ", "w", "i", "t", "h", " ", "s", "t", "a", "t", "u", "s", " ">>
s_OutOfMemory == <<"O", "u", "t", " ", "o", "f", " ", "M", "e", "m", "o", "r", "y">>
s_TimedOut == <<"T", "i", "m", "e", "d", " ", "o", "u", "t", " ">>
s_UnknownReason == <<"F", "a", "i", "l", "e", "d", " ", "f", "o", "r", " ", "u", "n", "k", "n", "o", "w", "n", " ", "r", "e", "a", "s", "o", "n">>
s_RenderService == <<"R", "e", "n", "d", "e", "r", " ", "S", "e", "r", "v", "i", "c", "e">>
s_undefined == <<"u", "n", "d", "e", "f", "i", "n", "e", "d">>
s_services == <<"/", "s", "e", "r", "v", "i", "c", "e", "s", "/">>
s_events == <<"/", "e", "v", "e", "n", "t", "s", "/">>
s_discordChannels == <<"h", "t", "t", "p", "s", ":", "/", "/", "d", "i", "s", "c", "o", "r", "d", ".", "c", "o", "m", "/", "a", "p", "i", "/", "v", "1", "0", "/", "c", "h", "a", "n", "n", "e", "l", "s", "/">>
s_messages == <<"/", "m", "e", "s", "s", "a", "g", "e", "s">>
s_logs == <<"/", "l", "o", "g", "s">>
s_Bearer == <<"B", "e", "a", "r", "e", "r", " ">>
s_Bot == <<"B", "o", "t", " ">>
s_Ellipsis == <<".", ".", ".">>
s_Time == <<"T", "i", "m", "e">>
s_Status == <<"S", "t", "a", "t", "u", "s">>
s_DeployID == <<"D", "e", "p", "l", "o", "y", " ", "I", "D">>
s_Trigger == <<"T", "r", "i", "g", "g", "e", "r">>
s_FailureReason == <<"F", "a", "i", "l", "u", "r", "e", " ", "R", "e", "a", "s", "o", "n">>
s_running == <<"r", "u", "n", "n", "i", "n", "g">>
s_Invalid == <<"I", "n", "v", "a", "l", "i", "d", " ", "o", "p", "t", "i", "o", "n", " ", ":", " ", "o", "p", "t", "i", "o", "n">>
ts_iso == <<"2", "0", "2", "5", "-", "0", "1", "-", "0", "1", "T", "1", "2", ":", "0", "0", ":", "0", "0", "Z">>
ts_garbage == <<"s", "o", "o", "n">>
s_eq == <<"=">>
s_commaSpace == <<",", " ">>
s_whsec == <<"w", "h", "s", "e", "c", "_">>
secret_good == <<"w", "h", "s", "e", "c", "_", "c", "2", "V", "j">>
secret_bad == <<"n", "o", "!">>
s_apiKey == <<"r", "n", "d", "_", "k">>
s_token == <<"t", "o", "k">>
s_channel == <<"4", "2">>
s_apiUrl == <<"h", "t", "t", "p", "s", ":", "/", "/", "r", ".", "t", "e", "s", "t", "/", "v", "1">>
s_msg1 == <<"m", "s", "g", "_", "1">>
hdr_ts_now == <<"1", "7", "3", "5", "7", "3", "2", "8", "0", "0">>
hdr_ts_old == <<"1", "0", "0", "0", "0", "0", "0", "0", "0", "0">>
s_evt1 == <<"e", "v", "t", "-", "1">>
s_srv1 == <<"s", "r", "v", "-", "1">>
s_api == <<"a", "p", "i">>
s_web == <<"w", "e", "b">>
s_dash == <<"h", "t", "t", "p", "s", ":", "/", "/", "d", "a", "s", "h", "/", "s", "r", "v", "-", "1">>
s_dep1 == <<"d", "e", "p", "-", "1">>
s_manual == <<"m", "a", "n", "u", "a", "l">>
s_true == <<"t", "r", "u", "e">>
s_probeFailed == <<"p", "r", "o", "b", "e", " ", "f", "a", "i", "l", "e", "d">>
s_whileStarting == <<"w", "h", "i", "l", "e", " ", "s", "t", "a", "r", "t", "i", "n", "g">>
s_padded == <<" ", "p", "a", "d", "d", "e", "d", " ">>
s_blank == <<" ", " ">>
key_sender == <<"c", "2", "V", "j">>
key_other == <<"b", "0", "0", "m">>
x_DeployStarted == <<"D", "e", "p", "l", "o", "y", " ", "S", "t", "a", "r", "t", "e", "d">>
x_Exited137 == <<"E", "x", "i", "t", "e", "d", " ", "w", "i", "t", "h", " ", "s", "t", "a", "t", "u", "s", " ", "1", "3", "7">>
x_TimedOut == <<"T", "i", "m", "e", "d", " ", "o", "u", "t">>
x_TimedOutPadded == <<"T", "i", "m", "e", "d", " ", "o", "u", "t", " ", " ", "p", "a", "d", "d", "e", "d">>
x_TimedOutWhile == <<"T", "i", "m", "e", "d", " ", "o", "u", "t", " ", "w", "h", "i", "l", "e", " ", "s", "t", "a", "r", "t", "i", "n", "g">>

\* The event types of the presentation table.
t_server_failed == <<"s", "e", "r", "v", "e", "r", "_", "f", "a", "i", "l", "e", "d">>
t_image_pull_failed == <<"i", "m", "a", "g", "e", "_", "p", "u", "l", "l", "_", "f", "a", "i", "l", "e", "d">>
t_key_value_unhealthy == <<"k", "e", "y", "_", "v", "a", "l", "u", "e", "_", "u", "n", "h", "e", "a", "l", "t", "h", "y">>
t_pipeline_minutes_exhausted == <<"p", "i", "p", "e", "l", "i", "n", "e", "_", "m", "i", "n", "u", "t", "e", "s", "_", "e", "x", "h", "a", "u", "s", "t", "e", "d">>
t_server_hardware_failure == <<"s", "e", "r", "v", "e", "r", "_", "h", "a", "r", "d", "w", "a", "r", "e", "_", "f", "a", "i", "l", "u", "r", "e">>
t_commit_ignored == <<"c", "o", "m", "m", "i", "t", "_", "i", "g", "n", "o", "r", "e", "d">>
t_maintenance_mode_enabled == <<"m", "a", "i", "n", "t", "e", "n", "a", "n", "c", "e", "_", "m", "o", "d", "e", "_", "e", "n", "a", "b", "l", "e", "d">>
t_maintenance_mode_uri_updated == <<"m", "a", "i", "n", "t", "e", "n", "a", "n", "c", "e", "_", "m", "o", "d", "e", "_", "u", "r", "i", "_", "u", "p", "d", "a", "t", "e", "d">>
t_autoscaling_started == <<"a", "u", "t", "o", "s", "c", "a", "l", "i", "n", "g", "_", "s", "t", "a", "r", "t", "e", "d">>
t_build_started == <<"b", "u", "i", "l", "d", "_", "s", "t", "a", "r", "t", "e", "d">>
t_deploy_started == <<"d", "e", "p", "l", "o", "y", "_", "s", "t", "a", "r", "t", "e", "d">>
t_cron_job_run_started == <<"c", "r", "o", "n", "_", "j", "o", "b", "_", "r", "u", "n", "_", "s", "t", "a", "r", "t", "e", "d">>
t_job_run_started == <<"j", "o", "b", "_", "r", "u", "n", "_", "s", "t", "a", "r", "t", "e", "d">>
t_maintenance_started == <<"m", "a", "i", "n", "t", "e", "n", "a", "n", "c", "e", "_", "s", "t", "a", "r", "t", "e", "d">>
t_zero_downtime_redeploy_started == <<"z", "e", "r", "o", "_", "d", "o", "w", "n", "t", "i", "m", "e", "_", "r", "e", "d", "e", "p", "l", "o", "y", "_", "s", "t", "a", "r", "t", "e", "d">>
t_autoscaling_ended == <<"a", "u", "t", "o", "s", "c", "a", "l", "i", "n", "g", "_", "e", "n", "d", "e", "d">>
t_build_ended == <<"b", "u", "i", "l", "d", "_", "e", "n", "d", "e", "d">>
t_deploy_ended == <<"d", "e", "p", "l", "o", "y", "_", "e", "n", "d", "e", "d">>
t_cron_job_run_ended == <<"c", "r", "o", "n", "_", "j", "o", "b", "_", "r", "u", "n", "_", "e", "n", "d", "e", "d">>
t_job_run_ended == <<"j", "o", "b", "_", "r", "u", "n", "_", "e", "n", "d", "e", "d">>
t_maintenance_ended == <<"m", "a", "i", "n", "t", "e", "n", "a", "n", "c", "e", "_", "e", "n", "d", "e", "d">>
t_zero_downtime_redeploy_ended == <<"z", "e", "r", "o", "_", "d", "o", "w", "n", "t", "i", "m", "e", "_", "r", "e", "d", "e", "p", "l", "o", "y", "_", "e", "n", "d", "e", "d">>
t_server_available == <<"s", "e", "r", "v", "e", "r", "_", "a", "v", "a", "i", "l", "a", "b", "l", "e">>
t_service_resumed == <<"s", "e", "r", "v", "i", "c", "e", "_", "r", "e", "s", "u", "m", "e", "d">>
t_server_restarted == <<"s", "e", "r", "v", "e", "r", "_", "r", "e", "s", "t", "a", "r", "t", "e", "d">>
t_service_suspended == <<"s", "e", "r", "v", "i", "c", "e", "_", "s", "u", "s", "p", "e", "n", "d", "e", "d">>

---------------------------------------------------------------------------
\* String primitives of the runtime.

LowerLetters == <<"a","b","c","d","e","f","g","h","i","j","k","l","m",
                  "n","o","p","q","r","s","t","u","v","w","x","y","z">>
UpperLetters == <<"A","B","C","D","E","F","G","H","I","J","K","L","M",
                  "N","O","P","Q","R","S","T","U","V","W","X","Y","Z">>

\* String.prototype.toUpperCase on one character.
ToUpperCase(c) ==
    IF \E i \in 1..Len(LowerLetters) : LowerLetters[i] = c
    THEN UpperLetters[CHOOSE i \in 1..Len(LowerLetters) : LowerLetters[i] = c]
    ELSE c

\* String.prototype.split(sep) for a one-character separator.
RECURSIVE Split(_, _)
Split(s, sep) ==
    IF \E i \in 1..Len(s) : s[i] = sep
    THEN LET i == CHOOSE k \in 1..Len(s) :
                      s[k] = sep /\ \A j \in 1..(k - 1) : s[j] # sep
         IN  <<SubSeq(s, 1, i - 1)>> \o Split(SubSeq(s, i + 1, Len(s)), sep)
    ELSE <<s>>

\* Array.prototype.join(sep).
RECURSIVE Join(_, _)
Join(words, sep) ==
    IF words = << >> THEN << >>
    ELSE IF Len(words) = 1 THEN words[1]
    ELSE words[1] \o sep \o Join(Tail(words), sep)

IsSpace(c) == c \in {" ", "\t", "\n"}

\* String.prototype.trim.
RECURSIVE TrimStart(_)
TrimStart(s) ==
    IF s # << >> /\ IsSpace(s[1]) THEN TrimStart(Tail(s)) ELSE s

RECURSIVE TrimEnd(_)
TrimEnd(s) ==
    IF s # << >> /\ IsSpace(s[Len(s)]) THEN TrimEnd(SubSeq(s, 1, Len(s) - 1)) ELSE s

Trim(s) == TrimEnd(TrimStart(s))

Digits == <<"0","1","2","3","4","5","6","7","8","9">>

\* Template-literal conversion of an integer: its decimal digits.
RECURSIVE NumToStr(_)
NumToStr(n) ==
    IF n < 0 THEN <<"-">> \o NumToStr(0 - n)
    ELSE IF n < 10 THEN <<Digits[n + 1]>>
    ELSE NumToStr(n \div 10) \o <<Digits[(n % 10) + 1]>>

---------------------------------------------------------------------------
\* Formatting (pure functions of src/app.ts).

truncate(text, maxLength) ==
    IF Len(text) <= maxLength THEN text
    ELSE SubSeq(text, 1, maxLength - 3) \o s_Ellipsis

Capitalize(word) ==
    IF word = << >> THEN << >> ELSE <<ToUpperCase(word[1])>> \o Tail(word)

\* Variant: only the first word is capitalized.
humanizeEventType_FirstWord(value) ==
    Capitalize(Join(Split(value, "_"), <<" ">>))

humanizeEventType(value) ==
    LET words == Split(value, "_")
    IN  Join([i \in 1..Len(words) |-> Capitalize(words[i])], <<" ">>)

humanizeStatus(value) == Capitalize(value)

\* payload.data?.status
StatusOf(payload) ==
    IF payload.data = None THEN None ELSE payload.data[1].status

FailureTypes == {t_server_failed, t_image_pull_failed, t_key_value_unhealthy,
                 t_pipeline_minutes_exhausted, t_server_hardware_failure}
WarningTypes == {t_commit_ignored, t_maintenance_mode_enabled,
                 t_maintenance_mode_uri_updated}
StartedTypes == {t_autoscaling_started, t_build_started, t_deploy_started,
                 t_cron_job_run_started, t_job_run_started,
                 t_maintenance_started, t_zero_downtime_redeploy_started}
EndedTypes == {t_autoscaling_ended, t_build_ended, t_deploy_ended,
               t_cron_job_run_ended, t_job_run_ended, t_maintenance_ended,
               t_zero_downtime_redeploy_ended, t_server_available,
               t_service_resumed}

\* getEventPresentation for a payload whose type is a string.  Colours:
\* 0xef4444 = 15680580, 0xf59e0b = 16096779, 0x22c55e = 2278750,
\* 0x94a3b8 = 9741240, 0x3b82f6 = 3900150.
getEventPresentation(payload) ==
    LET eventType == payload.type[1]
        status == StatusOf(payload)
        label == humanizeEventType(eventType)
    IN  IF TruthyStr(status) /\ status[1] = s_failed
        THEN [label |-> label \o s_Failed, emoji |-> "CROSS_MARK", color |-> 15680580]
        ELSE IF TruthyStr(status) /\ status[1] = s_canceled
        THEN [label |-> label \o s_Canceled, emoji |-> "WARNING", color |-> 16096779]
        ELSE IF TruthyStr(status) /\ status[1] = s_succeeded
        THEN [label |-> label \o s_Succeeded, emoji |-> "CHECK_MARK", color |-> 2278750]
        ELSE CASE eventType \in FailureTypes ->
                    [label |-> label, emoji |-> "CROSS_MARK", color |-> 15680580]
               [] eventType \in WarningTypes ->
                    [label |-> label, emoji |-> "WARNING", color |-> 16096779]
               [] eventType \in StartedTypes ->
                    [label |-> label, emoji |-> "HOURGLASS", color |-> 9741240]
               [] eventType \in EndedTypes ->
                    [label |-> label, emoji |-> "CHECK_MARK", color |-> 2278750]
               [] eventType = t_server_restarted ->
                    [label |-> label, emoji |-> "ARROWS", color |-> 3900150]
               [] eventType = t_service_suspended ->
                    [label |-> label, emoji |-> "PAUSE", color |-> 16096779]
               [] OTHER ->
                    [label |-> label, emoji |-> "INFO", color |-> 9741240]

\* getEventPresentation throws a TypeError on a null payload (payload.type)
\* and on a type that is no string (value.split).
getEventPresentationThrows(payload) == payload.isNull \/ payload.type = None

\* Variant: the out-of-memory flag is tested before the exit code.
formatFailureReason_OomFirst(failureReason) ==
    IF failureReason # None /\ TruthyBool(failureReason[1].oomKilled)
    THEN s_OutOfMemory
    ELSE IF failureReason # None /\ TruthyNum(failureReason[1].nonZeroExit)
    THEN s_ExitedWithStatus \o NumToStr(failureReason[1].nonZeroExit[1])
    ELSE IF failureReason # None /\ TruthyNum(failureReason[1].timedOutSeconds)
    THEN LET reason == IF TruthyStr(failureReason[1].timedOutReason)
                       THEN failureReason[1].timedOutReason[1] ELSE << >>
         IN  Trim(s_TimedOut \o reason)
    ELSE IF failureReason # None /\ TruthyStr(failureReason[1].unhealthy)
    THEN failureReason[1].unhealthy[1]
    ELSE s_UnknownReason

\* failureReason is the optional reason object; its fields are optional.
formatFailureReason(failureReason) ==
    IF failureReason # None /\ TruthyNum(failureReason[1].nonZeroExit)
    THEN s_ExitedWithStatus \o NumToStr(failureReason[1].nonZeroExit[1])
    ELSE IF failureReason # None /\ TruthyBool(failureReason[1].oomKilled)
    THEN s_OutOfMemory
    ELSE IF failureReason # None /\ TruthyNum(failureReason[1].timedOutSeconds)
    THEN LET reason == IF TruthyStr(failureReason[1].timedOutReason)
                       THEN failureReason[1].timedOutReason[1] ELSE << >>
         IN  Trim(s_TimedOut \o reason)
    ELSE IF failureReason # None /\ TruthyStr(failureReason[1].unhealthy)
    THEN failureReason[1].unhealthy[1]
    ELSE s_UnknownReason

\* event?.details
DetailsOf(event) == IF event = None THEN None ELSE event[1].details

\* event?.details?.reason
ReasonOf(event) ==
    IF DetailsOf(event) = None THEN None ELSE DetailsOf(event)[1].reason

formatEventDescription(payload, event) ==
    IF payload.type = Some(t_server_failed)
    THEN formatFailureReason(ReasonOf(event))
    ELSE << >>

\* payload.data.serviceName throws a TypeError when payload.data is absent.
formatEventTitleThrows(payload) == payload.data = None

formatEventTitle(payload, service, presentation) ==
    LET data == payload.data[1]
        name == IF TruthyStr(data.serviceName) THEN data.serviceName[1]
                ELSE IF service # None /\ TruthyStr(service[1].name)
                THEN service[1].name[1]
                ELSE IF TruthyStr(data.serviceId) THEN data.serviceId[1]
                ELSE s_RenderService
    IN  <<presentation.emoji, " ">> \o name \o <<" ", "EM_DASH", " ">>
            \o presentation.label

\* new Date(timestamp) yields a valid date for an ISO-8601 UTC instant
\* (YYYY-MM-DDTHH:MM:SSZ) and Invalid Date for the other strings modelled.
IsDigit(c) == \E i \in 1..Len(Digits) : Digits[i] = c

DateParses(timestamp) ==
    /\ Len(timestamp) = 20
    /\ timestamp[5] = "-" /\ timestamp[8] = "-" /\ timestamp[11] = "T"
    /\ timestamp[14] = ":" /\ timestamp[17] = ":" /\ timestamp[20] = "Z"
    /\ \A i \in (1..19) \ {5, 8, 11, 14, 17} : IsDigit(timestamp[i])

\* formatTimestamp: an unparseable timestamp is returned as it is.  For a valid
\* date the code calls toLocaleString with dateStyle, timeStyle and
\* timeZoneName together; ECMA-402 (CreateDateTimeFormat) throws a TypeError
\* when dateStyle or timeStyle is combined with an explicit component such as
\* timeZoneName, so the call throws.
formatTimestamp(timestamp) ==
    IF ~DateParses(timestamp)
    THEN [threw |-> FALSE, value |-> timestamp]
    ELSE [threw |-> TRUE, value |-> s_Invalid]

\* formatTrigger: trigger is a sequence of [key, value] entries.
formatTrigger(trigger) ==
    LET kept == SelectSeq(trigger, LAMBDA e : e.value # None)
        entries == [i \in 1..Len(kept) |-> kept[i].key \o s_eq \o kept[i].value[1]]
    IN  truncate(Join(entries, s_commaSpace), 1024)

Field(name, value, inline) == [name |-> name, value |-> value, inline |-> inline]

\* buildEventFields for a non-null payload.
buildEventFields(payload, service, event) ==
    LET timestamp == IF payload.timestamp # None THEN payload.timestamp[1] ELSE << >>
        time == formatTimestamp(timestamp)
        status == StatusOf(payload)
        details == DetailsOf(event)
        deployId == IF details = None THEN None
                    ELSE IF TruthyStr(details[1].deployId) THEN details[1].deployId
                    ELSE IF details[1].deploy = None THEN None
                    ELSE details[1].deploy[1].id
        triggerText == IF details = None \/ details[1].trigger = None THEN << >>
                       ELSE formatTrigger(details[1].trigger[1])
        fTime == IF timestamp # << >>
                 THEN <<Field(s_Time, time.value, FALSE)>> ELSE << >>
        fStatus == IF TruthyStr(status)
                   THEN <<Field(s_Status, humanizeStatus(status[1]), TRUE)>> ELSE << >>
        fDeploy == IF TruthyStr(deployId)
                   THEN <<Field(s_DeployID, deployId[1], FALSE)>> ELSE << >>
        fTrigger == IF triggerText # << >>
                    THEN <<Field(s_Trigger, triggerText, FALSE)>> ELSE << >>
        fReason == IF payload.type = Some(t_server_failed)
                   THEN <<Field(s_FailureReason,
                                formatFailureReason(ReasonOf(event)), FALSE)>>
                   ELSE << >>
    IN  IF timestamp # << >> /\ time.threw
        THEN [threw |-> TRUE, value |-> << >>]
        ELSE [threw |-> FALSE,
              value |-> fTime \o fStatus \o fDeploy \o fTrigger \o fReason]

\* service?.dashboardUrl
DashboardUrlOf(service) ==
    IF service # None /\ TruthyStr(service[1].dashboardUrl)
    THEN service[1].dashboardUrl ELSE None

\* The synchronous part of sendEventMessage throws before the POST is issued
\* when one of the formatting calls throws.
sendEventMessageThrows(payload, service, event) ==
    \/ getEventPresentationThrows(payload)
    \/ formatEventTitleThrows(payload)
    \/ buildEventFields(payload, service, event).threw

\* The body of the Discord POST (sendEventMessage, when nothing throws).
DiscordPayload(payload, service, event) ==
    LET presentation == getEventPresentation(payload)
        url == DashboardUrlOf(service)
    IN  [color       |-> presentation.color,
         title       |-> formatEventTitle(payload, service, presentation),
         description |-> formatEventDescription(payload, event),
         fields      |-> buildEventFields(payload, service, event).value,
         url         |-> url,
         components  |-> IF url # None THEN Some(url[1] \o s_logs) ELSE None]

---------------------------------------------------------------------------
\* Configuration and the outbound calls.

\* Variant: DISCORD_TOKEN is not checked.
getMissingEnvVars_NoToken(env) ==
    (IF ~TruthyStr(env.RENDER_WEBHOOK_SECRET) THEN <<"RENDER_WEBHOOK_SECRET">> ELSE << >>)
    \o (IF ~TruthyStr(env.RENDER_API_KEY) THEN <<"RENDER_API_KEY">> ELSE << >>)
    \o (IF ~TruthyStr(env.DISCORD_CHANNEL_ID) THEN <<"DISCORD_CHANNEL_ID">> ELSE << >>)

getMissingEnvVars(env) ==
    (IF ~TruthyStr(env.RENDER_WEBHOOK_SECRET) THEN <<"RENDER_WEBHOOK_SECRET">> ELSE << >>)
    \o (IF ~TruthyStr(env.RENDER_API_KEY) THEN <<"RENDER_API_KEY">> ELSE << >>)
    \o (IF ~TruthyStr(env.DISCORD_TOKEN) THEN <<"DISCORD_TOKEN">> ELSE << >>)
    \o (IF ~TruthyStr(env.DISCORD_CHANNEL_ID) THEN <<"DISCORD_CHANNEL_ID">> ELSE << >>)

getRenderApiUrl(env) ==
    IF TruthyStr(env.RENDER_API_URL) THEN env.RENDER_API_URL[1]
    ELSE DEFAULT_RENDER_API_URL

\* `${x}` of an optional string: "undefined" when absent.
Interpolate(o) == IF o = None THEN s_undefined ELSE o[1]

Call(kind, method, url, auth, body) ==
    [kind |-> kind, method |-> method, url |-> url, auth |-> auth, body |-> body]

\* payload.data.serviceId / payload.data.id throw a TypeError when the payload
\* is null or has no data object: the fetch is then never issued.
fetchInfoThrows(payload) == payload.isNull \/ payload.data = None

fetchServiceInfoCall(payload, env) ==
    Call("service", "get",
         getRenderApiUrl(env) \o s_services \o Interpolate(payload.data[1].serviceId),
         s_Bearer \o env.RENDER_API_KEY[1], None)

fetchEventInfoCall(payload, env) ==
    Call("event", "get",
         getRenderApiUrl(env) \o s_events \o Interpolate(payload.data[1].id),
         s_Bearer \o env.RENDER_API_KEY[1], None)

\* Variant: the message is composed with the event still null, as it is
\* before the event fetch has settled.
sendEventMessageCall_StaleEvent(payload, service, event, env) ==
    Call("discord", "POST",
         s_discordChannels \o env.DISCORD_CHANNEL_ID[1] \o s_messages,
         s_Bot \o env.DISCORD_TOKEN[1],
         Some(DiscordPayload(payload, service, None)))

sendEventMessageCall(payload, service, event, env) ==
    Call("discord", "POST",
         s_discordChannels \o env.DISCORD_CHANNEL_ID[1] \o s_messages,
         s_Bot \o env.DISCORD_TOKEN[1],
         Some(DiscordPayload(payload, service, event)))

---------------------------------------------------------------------------
\* Signature verification (validateWebhook and the standardwebhooks Webhook
\* class it calls).  The HMAC of `${id}.${timestamp}.${body}` under a key is
\* the symbolic value Sign(key, id, timestamp, body).

Sign(key, id, timestamp, body) == <<"v1", key, id, timestamp, body>>

Base64Alphabet ==
    {LowerLetters[i] : i \in 1..Len(LowerLetters)}
        \cup {UpperLetters[i] : i \in 1..Len(UpperLetters)}
        \cup {Digits[i] : i \in 1..Len(Digits)} \cup {"+", "/", "="}

\* new Webhook(secret): the "whsec_" prefix is dropped, the rest is base64.
SecretKey(secret) ==
    IF Len(secret) >= Len(s_whsec) /\ SubSeq(secret, 1, Len(s_whsec)) = s_whsec
    THEN SubSeq(secret, Len(s_whsec) + 1, Len(secret))
    ELSE secret

\* The constructor throws a plain Error on an empty secret and on one that
\* is no base64 text.
WebhookConstructorThrows(secret) ==
    \/ secret = << >>
    \/ \E i \in 1..Len(SecretKey(secret)) : SecretKey(secret)[i] \notin Base64Alphabet

\* The timestamp tolerance window, at the time the request is handled.
WithinTolerance(timestamp) == timestamp = hdr_ts_now

\* Variant: the headers need only be present; the signature is not compared.
validateWebhook_HeadersOnly(bodyText, headers, secret) ==
    IF WebhookConstructorThrows(secret) THEN "Error"
    ELSE IF headers.id = << >> \/ headers.timestamp = << >> \/ headers.signature = << >>
    THEN "WebhookVerificationError"
    ELSE "ok"

\* validateWebhook: "ok", or the class of the error thrown.
validateWebhook(bodyText, headers, secret) ==
    IF WebhookConstructorThrows(secret) THEN "Error"
    ELSE IF headers.id = << >> \/ headers.timestamp = << >> \/ headers.signature = << >>
    THEN "WebhookVerificationError"
    ELSE IF ~WithinTolerance(headers.timestamp) THEN "WebhookVerificationError"
    ELSE IF headers.signature =
                Sign(SecretKey(secret), headers.id, headers.timestamp, bodyText)
    THEN "ok"
    ELSE "WebhookVerificationError"

\* request.headers.get(name) || ""
HeaderOrEmpty(o) == IF o = None THEN << >> ELSE o[1]

RequiredHeaders(request) ==
    [id        |-> HeaderOrEmpty(request.headers.id),
     timestamp |-> HeaderOrEmpty(request.headers.timestamp),
     signature |-> HeaderOrEmpty(request.headers.signature)]

---------------------------------------------------------------------------
\* Request bodies and JSON.parse.

Data(id, serviceId, serviceName, status) ==
    [id |-> id, serviceId |-> serviceId, serviceName |-> serviceName, status |-> status]

Payload(type, timestamp, data) ==
    [isNull |-> FALSE, type |-> type, timestamp |-> timestamp, data |-> data]

NullPayload == [isNull |-> TRUE, type |-> None, timestamp |-> None, data |-> None]

b_failed == "{\"type\":\"server_failed\",\"timestamp\":\"soon\",\"data\":{\"id\":\"evt-1\",\"serviceId\":\"srv-1\"}}"
b_failed_iso == "{\"type\":\"server_failed\",\"timestamp\":\"2025-01-01T12:00:00Z\",\"data\":{\"id\":\"evt-1\",\"serviceId\":\"srv-1\",\"serviceName\":\"api\"}}"
b_deploy == "{\"type\":\"deploy_ended\",\"data\":{\"id\":\"evt-1\",\"serviceId\":\"srv-1\",\"serviceName\":\"api\",\"status\":\"succeeded\"}}"
b_notype == "{\"data\":{\"id\":\"evt-1\",\"serviceId\":\"srv-1\"}}"
b_nodata == "{\"type\":\"deploy_started\"}"
b_emptydata == "{\"type\":\"deploy_started\",\"timestamp\":\"soon\",\"data\":{}}"
b_null == "null"
b_text == "not json"
b_empty == ""
b_original == "{\"type\":\"original\"}"

Bodies == {b_failed, b_failed_iso, b_deploy, b_notype, b_nodata, b_emptydata,
           b_null, b_text, b_empty}

\* JSON.parse on the bodies above: [ok |-> FALSE] is a SyntaxError.
JSONParse(text) ==
    CASE text = b_failed ->
            [ok |-> TRUE, value |-> Payload(Some(t_server_failed), Some(ts_garbage),
                Some(Data(Some(s_evt1), Some(s_srv1), None, None)))]
      [] text = b_failed_iso ->
            [ok |-> TRUE, value |-> Payload(Some(t_server_failed), Some(ts_iso),
                Some(Data(Some(s_evt1), Some(s_srv1), Some(s_api), None)))]
      [] text = b_deploy ->
            [ok |-> TRUE, value |-> Payload(Some(t_deploy_ended), None,
                Some(Data(Some(s_evt1), Some(s_srv1), Some(s_api), Some(s_succeeded))))]
      [] text = b_notype ->
            [ok |-> TRUE, value |-> Payload(None, None,
                Some(Data(Some(s_evt1), Some(s_srv1), None, None)))]
      [] text = b_nodata ->
            [ok |-> TRUE, value |-> Payload(Some(t_deploy_started), None, None)]
      [] text = b_emptydata ->
            [ok |-> TRUE, value |-> Payload(Some(t_deploy_started), Some(ts_garbage),
                Some(Data(None, None, None, None)))]
      [] text = b_null -> [ok |-> TRUE, value |-> NullPayload]
      [] OTHER -> [ok |-> FALSE, value |-> NullPayload]

---------------------------------------------------------------------------
\* The requests, configurations and upstream responses explored.

Headers(id, timestamp, signature) ==
    [id |-> id, timestamp |-> timestamp, signature |-> signature]

\* Header sets a sender can attach to a body: correctly signed; absent;
\* signed for another body; signed with another key; signed long ago.
HeaderChoices(body) ==
    {Headers(Some(s_msg1), Some(hdr_ts_now),
             Some(Sign(key_sender, s_msg1, hdr_ts_now, body))),
     Headers(None, None, None),
     Headers(Some(s_msg1), Some(hdr_ts_now),
             Some(Sign(key_sender, s_msg1, hdr_ts_now, b_original))),
     Headers(Some(s_msg1), Some(hdr_ts_now),
             Some(Sign(key_other, s_msg1, hdr_ts_now, body))),
     Headers(Some(s_msg1), Some(hdr_ts_old),
             Some(Sign(key_sender, s_msg1, hdr_ts_old, body)))}

Requests ==
    UNION {{[pathname |-> p, method |-> m, headers |-> h, body |-> b] :
                p \in {"/webhook", "/"}, m \in {"POST", "GET"},
                h \in HeaderChoices(b)} : b \in Bodies}

OptionalOf(value) == {None, Some(<< >>), Some(value)}

Envs ==
    [RENDER_WEBHOOK_SECRET : OptionalOf(secret_good) \cup {Some(secret_bad)},
     RENDER_API_URL        : {None, Some(s_apiUrl)},
     RENDER_API_KEY        : OptionalOf(s_apiKey),
     DISCORD_TOKEN         : OptionalOf(s_token),
     DISCORD_CHANNEL_ID    : OptionalOf(s_channel)]

Service(name, dashboardUrl) == [name |-> name, dashboardUrl |-> dashboardUrl]

Reason(nonZeroExit, oomKilled, timedOutSeconds, timedOutReason, unhealthy) ==
    [nonZeroExit |-> nonZeroExit, oomKilled |-> oomKilled,
     timedOutSeconds |-> timedOutSeconds, timedOutReason |-> timedOutReason,
     unhealthy |-> unhealthy]

Details(reason, deployId, deploy, trigger) ==
    [reason |-> reason, deployId |-> deployId, deploy |-> deploy, trigger |-> trigger]

Event(details) == [details |-> details]

\* What an upstream request comes to: the fetch promise rejects ("rejected"),
\* the response is not ok ("notok"), or it is ok and carries json (None when
\* the body is no JSON, so that res.json() rejects).
Upstream(kind, json) == [kind |-> kind, json |-> json]

ServiceResponses ==
    {Upstream("rejected", None), Upstream("notok", None), Upstream("ok", None),
     Upstream("ok", Some(Service(Some(s_web), Some(s_dash)))),
     Upstream("ok", Some(Service(Some(s_web), None)))}

EventResponses ==
    {Upstream("rejected", None), Upstream("notok", None),
     Upstream("ok", Some(Event(None))),
     Upstream("ok", Some(Event(Some(Details(
         Some(Reason(Some(137), None, None, None, None)), None, None, None))))),
     Upstream("ok", Some(Event(Some(Details(None, None, Some([id |-> Some(s_dep1)]),
         Some(<<[key |-> s_manual, value |-> Some(s_true)]>>))))))}

DiscordResponses == {Upstream("rejected", None), Upstream("notok", None),
                     Upstream("ok", None)}

\* fetchServiceInfo / fetchEventInfo after the response: the parsed body, or
\* an error thrown.
FetchResult(upstream) ==
    IF upstream.kind = "ok" /\ upstream.json # None
    THEN [threw |-> FALSE, value |-> upstream.json]
    ELSE [threw |-> TRUE, value |-> None]

\* sendEventMessage after the response: throws unless res.ok.
SendResult(upstream) == [threw |-> upstream.kind # "ok", value |-> None]

---------------------------------------------------------------------------
\* State.

VARIABLES
    request,    \* the inbound request
    env,        \* the worker's configuration
    pc,         \* position of the fetch handler: "start", "awaitText", "returned"
    response,   \* the response returned, None before
    checks,     \* the checkpoints of the handler evaluated so far, in order
    scheduled,  \* ctx.waitUntil has been called
    payload,    \* the parsed payload handed to handleWebhook, None before
    hwPc,       \* position of handleWebhook: "idle", "awaitService",
                \* "awaitEvent", "awaitSend", "done"
    hwPromise,  \* the promise handed to waitUntil: "none", "pending",
                \* "fulfilled", "rejected"
    service,    \* handleWebhook's local: the fetched service, None for null
    event,      \* handleWebhook's local: the fetched event, None for null
    pending,    \* kinds of the outbound calls issued and not yet settled
    outbound,   \* every outbound call issued, in order
    results,    \* how each awaited call of handleWebhook settled, in order
    logged,     \* what console.error was called for, in order
    probe       \* the formatting call examined on its own, None otherwise

handlerVars == <<pc, response, checks, scheduled, payload>>
pipelineVars == <<hwPc, hwPromise, service, event, pending, outbound, results>>
vars == <<request, env, pc, response, checks, scheduled, payload, hwPc, hwPromise,
          service, event, pending, outbound, results, logged, probe>>

Response(body, status, contentType) ==
    [body |-> body, status |-> status, contentType |-> contentType]

Idle ==
    /\ pc = "start"
    /\ response = None
    /\ checks = << >>
    /\ scheduled = FALSE
    /\ payload = None
    /\ hwPc = "idle"
    /\ hwPromise = "none"
    /\ service = None
    /\ event = None
    /\ pending = {}
    /\ outbound = << >>
    /\ results = << >>
    /\ logged = << >>

Init ==
    /\ request \in Requests
    /\ env \in Envs
    /\ Idle
    /\ probe = None

---------------------------------------------------------------------------
\* The fetch handler.

Return(resp, evaluated) ==
    /\ response' = Some(resp)
    /\ checks' = checks \o evaluated
    /\ pc' = "returned"

\* Variant: sendEventMessage is awaited outside a try block.
CaughtStages_NoSend == {"service", "event"}

\* The try blocks of handleWebhook: an error thrown in one of these stages is
\* caught and logged.
CaughtStages == {"service", "event", "send"}

\* Variant: both fetches are started before the first await.
StartFetches_Concurrent(p, e) ==
    IF fetchInfoThrows(p) THEN << >>
    ELSE <<fetchServiceInfoCall(p, e), fetchEventInfoCall(p, e)>>

\* The calls handleWebhook issues before it first suspends: the service fetch,
\* unless building its URL throws.
StartFetches(p, e) ==
    IF fetchInfoThrows(p) THEN << >> ELSE <<fetchServiceInfoCall(p, e)>>

Kinds(calls) == {calls[i].kind : i \in 1..Len(calls)}

Exit(resp, evaluated, log) ==
    [response |-> resp, evaluated |-> evaluated, log |-> log]

\* Variant: the method is not checked.
EarlyExit_NoMethodCheck(req, e) ==
    IF req.pathname # "/webhook"
    THEN Some(Exit(Response("Not Found", 404, None), <<"path">>, << >>))
    ELSE IF Len(getMissingEnvVars(e)) > 0
    THEN Some(Exit(Response("", 500, None), <<"path", "method", "config">>,
                   <<"Missing env vars">>))
    ELSE None

\* Variant: the method is checked before the path.
EarlyExit_MethodFirst(req, e) ==
    IF req.method # "POST"
    THEN Some(Exit(Response("Method Not Allowed", 405, None), <<"method">>, << >>))
    ELSE IF req.pathname # "/webhook"
    THEN Some(Exit(Response("Not Found", 404, None), <<"method", "path">>, << >>))
    ELSE IF Len(getMissingEnvVars(e)) > 0
    THEN Some(Exit(Response("", 500, None), <<"path", "method", "config">>,
                   <<"Missing env vars">>))
    ELSE None

\* Variant: the 404 and 405 responses carry no body.
EarlyExit_EmptyBodies(req, e) ==
    IF req.pathname # "/webhook"
    THEN Some(Exit(Response("", 404, None), <<"path">>, << >>))
    ELSE IF req.method # "POST"
    THEN Some(Exit(Response("", 405, None), <<"path", "method">>, << >>))
    ELSE IF Len(getMissingEnvVars(e)) > 0
    THEN Some(Exit(Response("", 500, None), <<"path", "method", "config">>,
                   <<"Missing env vars">>))
    ELSE None

\* lines 20-32: the checks made before the body is read.  None when all pass,
\* else the response returned, the checkpoints evaluated and what is logged.
EarlyExit(req, e) ==
    IF req.pathname # "/webhook"
    THEN Some(Exit(Response("Not Found", 404, None), <<"path">>, << >>))
    ELSE IF req.method # "POST"
    THEN Some(Exit(Response("Method Not Allowed", 405, None),
                   <<"path", "method">>, << >>))
    ELSE IF Len(getMissingEnvVars(e)) > 0
    THEN Some(Exit(Response("", 500, None), <<"path", "method", "config">>,
                   <<"Missing env vars">>))
    ELSE None

\* Variant: a body that does not parse is not rejected.
LateExit_NoParseCheck(req, e) ==
    LET outcome == validateWebhook(req.body, RequiredHeaders(req),
                                   e.RENDER_WEBHOOK_SECRET[1])
    IN  IF outcome = "WebhookVerificationError"
        THEN Some(Exit(Response("", 400, None), <<"body", "verify">>, <<outcome>>))
        ELSE IF outcome # "ok"
        THEN Some(Exit(Response("", 500, None), <<"body", "verify">>, <<outcome>>))
        ELSE None

\* lines 42-64: verification and parsing of the body read.  None when both
\* pass, else the rejection.
LateExit(req, e) ==
    LET outcome == validateWebhook(req.body, RequiredHeaders(req),
                                   e.RENDER_WEBHOOK_SECRET[1])
    IN  IF outcome = "WebhookVerificationError"
        THEN Some(Exit(Response("", 400, None), <<"body", "verify">>, <<outcome>>))
        ELSE IF outcome # "ok"
        THEN Some(Exit(Response("", 500, None), <<"body", "verify">>, <<outcome>>))
        ELSE IF ~JSONParse(req.body).ok
        THEN Some(Exit(Response("", 400, None), <<"body", "verify", "parse">>,
                       <<"SyntaxError">>))
        ELSE None

\* lines 67-72: the acknowledgement.
Accepted == Response("{}", 200, Some("application/json"))

\* lines 19-36: path, method and configuration, up to the await of the body.
FetchStart ==
    /\ pc = "start"
    /\ probe = None
    /\ LET exit == EarlyExit(request, env)
       IN  IF exit # None
           THEN /\ Return(exit[1].response, exit[1].evaluated)
                /\ logged' = logged \o exit[1].log
           ELSE /\ pc' = "awaitText"
                /\ checks' = <<"path", "method", "config">>
                /\ UNCHANGED <<response, logged>>
    /\ UNCHANGED <<request, env, scheduled, payload, pipelineVars, probe>>

\* lines 37-40: request.text() rejects.
FetchBodyFails ==
    /\ pc = "awaitText"
    /\ Return(Response("", 400, None), <<"body">>)
    /\ logged' = Append(logged, "body")
    /\ UNCHANGED <<request, env, scheduled, payload, pipelineVars, probe>>

\* lines 36-73: the body is read; verification, parsing, dispatch, response.
\* handleWebhook runs up to its first await inside the call of line 66.
FetchBodyRead ==
    /\ pc = "awaitText"
    /\ LET exit == LateExit(request, env)
       IN  IF exit # None
           THEN /\ Return(exit[1].response, exit[1].evaluated)
                /\ logged' = logged \o exit[1].log
                /\ UNCHANGED <<scheduled, payload, pipelineVars>>
           ELSE LET parsed == JSONParse(request.body).value
                    calls == StartFetches(parsed, env)
                IN  /\ payload' = Some(parsed)
                    /\ scheduled' = TRUE
                    /\ hwPromise' = "pending"
                    /\ hwPc' = "awaitService"
                    /\ outbound' = outbound \o calls
                    /\ pending' = pending \cup Kinds(calls)
                    /\ Return(Accepted, <<"body", "verify", "parse">>)
                    /\ UNCHANGED <<service, event, results, logged>>
    /\ UNCHANGED <<request, env, probe>>

---------------------------------------------------------------------------
\* handleWebhook, from one await to the next.

\* An error thrown in a stage ends handleWebhook with a rejected promise unless
\* the stage's try block catches it.
Escapes(stage, threw) == threw /\ stage \notin CaughtStages

\* lines 98-105: the service fetch settles; the event fetch is issued.
ServiceSettles ==
    /\ hwPc = "awaitService"
    /\ \E upstream \in IF "service" \in pending THEN ServiceResponses
                       ELSE {Upstream("threw", None)} :
        LET r == FetchResult(upstream)
            calls == IF fetchInfoThrows(payload[1]) THEN << >>
                     ELSE <<fetchEventInfoCall(payload[1], env)>>
        IN  /\ service' = r.value
            /\ results' = Append(results, [kind |-> "service", upstream |-> upstream])
            /\ logged' = IF r.threw THEN Append(logged, "service") ELSE logged
            /\ IF Escapes("service", r.threw)
               THEN /\ hwPc' = "done"
                    /\ hwPromise' = "rejected"
                    /\ pending' = pending \ {"service"}
                    /\ outbound' = outbound
               ELSE /\ hwPc' = "awaitEvent"
                    /\ hwPromise' = hwPromise
                    /\ pending' = (pending \ {"service"}) \cup Kinds(calls)
                    /\ outbound' = outbound \o calls
    /\ UNCHANGED <<request, env, handlerVars, event, probe>>

\* lines 104-111: the event fetch settles; sendEventMessage formats the
\* message and issues the POST, or throws while formatting.
EventSettles ==
    /\ hwPc = "awaitEvent"
    /\ \E upstream \in IF "event" \in pending THEN EventResponses
                       ELSE {Upstream("threw", None)} :
        LET r == FetchResult(upstream)
            sendThrows == sendEventMessageThrows(payload[1], service, r.value)
            calls == IF sendThrows THEN << >>
                     ELSE <<sendEventMessageCall(payload[1], service, r.value, env)>>
        IN  /\ event' = r.value
            /\ results' = Append(results, [kind |-> "event", upstream |-> upstream])
            /\ IF Escapes("event", r.threw)
               THEN /\ hwPc' = "done"
                    /\ hwPromise' = "rejected"
                    /\ pending' = pending \ {"event"}
                    /\ outbound' = outbound
                    /\ logged' = logged
               ELSE IF sendThrows
               THEN /\ hwPc' = "done"
                    /\ hwPromise' = IF Escapes("send", TRUE) THEN "rejected"
                                    ELSE "fulfilled"
                    /\ pending' = pending \ {"event"}
                    /\ outbound' = outbound
                    /\ logged' = (IF r.threw THEN Append(logged, "event") ELSE logged)
                                    \o <<"send">>
               ELSE /\ hwPc' = "awaitSend"
                    /\ hwPromise' = hwPromise
                    /\ pending' = (pending \ {"event"}) \cup Kinds(calls)
                    /\ outbound' = outbound \o calls
                    /\ logged' = IF r.threw THEN Append(logged, "event") ELSE logged
    /\ UNCHANGED <<request, env, handlerVars, service, probe>>

\* lines 110-115 and 169-174: the Discord POST settles; handleWebhook ends.
DiscordSettles ==
    /\ hwPc = "awaitSend"
    /\ \E upstream \in DiscordResponses :
        LET r == SendResult(upstream)
        IN  /\ results' = Append(results, [kind |-> "discord", upstream |-> upstream])
            /\ logged' = IF r.threw THEN Append(logged, "send") ELSE logged
            /\ hwPromise' = IF Escapes("send", r.threw) THEN "rejected" ELSE "fulfilled"
    /\ hwPc' = "done"
    /\ pending' = pending \ {"discord"}
    /\ UNCHANGED <<request, env, handlerVars, service, event, outbound, probe>>

Next ==
    \/ FetchStart
    \/ FetchBodyFails
    \/ FetchBodyRead
    \/ ServiceSettles
    \/ EventSettles
    \/ DiscordSettles

Spec == Init /\ [][Next]_vars

---------------------------------------------------------------------------
\* The formatting functions on their own: getEventPresentation and
\* formatEventDescription applied to payloads and events drawn from the sets
\* below.

MaxTypeLen == 3
MaxExitCode == 1

TypeAlphabet == {"d", "_", "X"}

KnownTypes ==
    FailureTypes \cup WarningTypes \cup StartedTypes \cup EndedTypes
        \cup {t_server_restarted, t_service_suspended}

\* The table's event types and every string over the alphabet up to MaxTypeLen.
ProbeTypes == KnownTypes \cup UNION {[1..k -> TypeAlphabet] : k \in 0..MaxTypeLen}

ProbeStatuses == {None, Some(<< >>), Some(s_failed), Some(s_canceled),
                  Some(s_succeeded), Some(s_running)}

PresentationProbes ==
    {Payload(Some(t), None, Some(Data(None, None, None, st))) :
        t \in ProbeTypes, st \in ProbeStatuses}
        \cup {Payload(Some(t), None, None) : t \in ProbeTypes}

ProbeReasons ==
    {Reason(exit, oom, secs, why, unhealthy) :
        exit \in {None, Some(137), Some(0 - 1)} \cup {Some(n) : n \in 0..MaxExitCode},
        oom \in {None, Some(FALSE), Some(TRUE)},
        secs \in {None, Some(0), Some(30)},
        why \in {None, Some(<< >>), Some(s_blank), Some(s_whileStarting), Some(s_padded)},
        unhealthy \in {None, Some(<< >>), Some(s_probeFailed)}}

\* null (the event fetch failed), an event without details, details without
\* a reason, and details with each reason.
ProbeEvents ==
    {None, Some(Event(None)), Some(Event(Some(Details(None, None, None, None))))}
        \cup {Some(Event(Some(Details(Some(r), None, None, None)))) : r \in ProbeReasons}

DescriptionProbes ==
    {Payload(Some(t), None, Some(Data(Some(s_evt1), Some(s_srv1), None, None))) :
        t \in {t_server_failed, t_deploy_ended}}

Probe(fn, p, ev, out) == [fn |-> fn, payload |-> p, event |-> ev, out |-> out]

InitFormat ==
    /\ request = [pathname |-> "/webhook", method |-> "POST",
                  headers |-> Headers(None, None, None), body |-> b_empty]
    /\ env = [RENDER_WEBHOOK_SECRET |-> Some(secret_good), RENDER_API_URL |-> None,
              RENDER_API_KEY |-> Some(s_apiKey), DISCORD_TOKEN |-> Some(s_token),
              DISCORD_CHANNEL_ID |-> Some(s_channel)]
    /\ Idle
    /\ \/ \E p \in PresentationProbes :
            probe = Some(Probe("getEventPresentation", p, None, None))
       \/ \E p \in DescriptionProbes, ev \in ProbeEvents :
            probe = Some(Probe("formatEventDescription", p, ev, None))

ApplyPresentation ==
    /\ probe # None
    /\ probe[1].fn = "getEventPresentation"
    /\ probe[1].out = None
    /\ probe' = Some([probe[1] EXCEPT !.out = Some(getEventPresentation(probe[1].payload))])
    /\ UNCHANGED <<request, env, handlerVars, pipelineVars, logged>>

ApplyDescription ==
    /\ probe # None
    /\ probe[1].fn = "formatEventDescription"
    /\ probe[1].out = None
    /\ probe' = Some([probe[1] EXCEPT
                        !.out = Some(formatEventDescription(probe[1].payload,
                                                            probe[1].event))])
    /\ UNCHANGED <<request, env, handlerVars, pipelineVars, logged>>

NextFormat == ApplyPresentation \/ ApplyDescription

SpecFormat == InitFormat /\ [][NextFormat]_vars

---------------------------------------------------------------------------
\* Properties of the formatting functions (checked under SpecFormat).

ProbeDone(fn) == probe # None /\ probe[1].fn = fn /\ probe[1].out # None

\* h is value with every underscore replaced by a space and the first letter
\* of every underscore-separated word in upper case.
HumanizedAs(value, h) ==
    /\ Len(h) = Len(value)
    /\ \A i \in 1..Len(value) :
        h[i] = IF value[i] = "_" THEN " "
               ELSE IF i = 1 \/ value[i - 1] = "_" THEN ToUpperCase(value[i])
               ELSE value[i]

LabelIs(value, suffix, label) ==
    /\ Len(label) = Len(value) + Len(suffix)
    /\ HumanizedAs(value, SubSeq(label, 1, Len(value)))
    /\ SubSeq(label, Len(value) + 1, Len(label)) = suffix

\* The closed event-type table: the colour of each listed type, gray for any
\* other.
TableColor(eventType) ==
    CASE eventType \in {t_server_failed, t_image_pull_failed, t_key_value_unhealthy,
                        t_pipeline_minutes_exhausted, t_server_hardware_failure}
            -> 15680580
      [] eventType \in {t_commit_ignored, t_maintenance_mode_enabled,
                        t_maintenance_mode_uri_updated, t_service_suspended}
            -> 16096779
      [] eventType \in {t_autoscaling_started, t_build_started, t_deploy_started,
                        t_cron_job_run_started, t_job_run_started,
                        t_maintenance_started, t_zero_downtime_redeploy_started}
            -> 9741240
      [] eventType \in {t_autoscaling_ended, t_build_ended, t_deploy_ended,
                        t_cron_job_run_ended, t_job_run_ended, t_maintenance_ended,
                        t_zero_downtime_redeploy_ended, t_server_available,
                        t_service_resumed}
            -> 2278750
      [] eventType = t_server_restarted -> 3900150
      [] OTHER -> 9741240

\* C10: getEventPresentation returns, for a status of failed / canceled /
\* succeeded, red / amber / green and the humanized event type followed by
\* " Failed" / " Canceled" / " Succeeded", whatever the event type; for an
\* absent status, the colour of the closed table and the humanized event type
\* as label; deploy_started is labelled "Deploy Started" and is gray.
C10_Presentation ==
    ProbeDone("getEventPresentation") =>
        LET p == probe[1].payload
            t == p.type[1]
            st == StatusOf(p)
            o == probe[1].out[1]
        IN  /\ st = Some(s_failed) =>
                    o.color = 15680580 /\ LabelIs(t, s_Failed, o.label)
            /\ st = Some(s_canceled) =>
                    o.color = 16096779 /\ LabelIs(t, s_Canceled, o.label)
            /\ st = Some(s_succeeded) =>
                    o.color = 2278750 /\ LabelIs(t, s_Succeeded, o.label)
            /\ st = None => o.color = TableColor(t) /\ HumanizedAs(t, o.label)
            /\ (st = None /\ t = t_deploy_started) =>
                    o.label = x_DeployStarted /\ o.color = 9741240

\* The status takes precedence over the event type: a failed deploy_started.
C10_Witness ==
    /\ ProbeDone("getEventPresentation")
    /\ probe[1].payload.type = Some(t_deploy_started)
    /\ StatusOf(probe[1].payload) = Some(s_failed)
    /\ probe[1].out[1].color = 15680580

ExitFires(r) == r # None /\ r[1].nonZeroExit # None /\ r[1].nonZeroExit[1] # 0
OomFires(r) == r # None /\ r[1].oomKilled = Some(TRUE)
UnhealthyFires(r) == r # None /\ r[1].unhealthy # None /\ r[1].unhealthy[1] # << >>

\* "Timed out {timedOutReason}" trimmed, for the reasons explored.
TimedOutText(r) ==
    CASE r[1].timedOutReason = Some(s_whileStarting) -> x_TimedOutWhile
      [] r[1].timedOutReason = Some(s_padded) -> x_TimedOutPadded
      [] OTHER -> x_TimedOut

\* The failure-reason text by fixed precedence; timedOut says when the
\* time-out branch fires.
ReasonText(r, timedOut) ==
    IF ExitFires(r)
    THEN IF r[1].nonZeroExit[1] = 137 THEN x_Exited137
         ELSE s_ExitedWithStatus \o NumToStr(r[1].nonZeroExit[1])
    ELSE IF OomFires(r) THEN s_OutOfMemory
    ELSE IF timedOut THEN TimedOutText(r)
    ELSE IF UnhealthyFires(r) THEN r[1].unhealthy[1]
    ELSE s_UnknownReason

ServerFailedDescribed ==
    /\ ProbeDone("formatEventDescription")
    /\ probe[1].payload.type = Some(t_server_failed)

\* C9 as claimed: the description of a server_failed webhook is the
\* failure-reason text by precedence non-zero exit code, oomKilled true,
\* timedOutSeconds present, non-empty unhealthy, else "Failed for unknown
\* reason".
C9_AsClaimed ==
    ServerFailedDescribed =>
        LET r == ReasonOf(probe[1].event)
        IN  probe[1].out[1] =
                ReasonText(r, r # None /\ r[1].timedOutSeconds # None)

\* C9 (amended): the description of a server_failed webhook is the
\* failure-reason text by precedence non-zero exit code, oomKilled true,
\* timedOutSeconds present and non-zero, non-empty unhealthy, else "Failed for
\* unknown reason" (also for an absent reason and a failed event fetch).
C9_FailureReason ==
    ServerFailedDescribed =>
        LET r == ReasonOf(probe[1].event)
        IN  probe[1].out[1] =
                ReasonText(r, /\ r # None
                              /\ r[1].timedOutSeconds # None
                              /\ r[1].timedOutSeconds[1] # 0)

\* Several fields populated: exit code 137 with oomKilled, a time-out and an
\* unhealthy text; the exit code wins.
C9_Witness ==
    /\ ServerFailedDescribed
    /\ ReasonOf(probe[1].event) =
            Some(Reason(Some(137), Some(TRUE), Some(30), Some(s_padded),
                        Some(s_probeFailed)))
    /\ probe[1].out[1] = x_Exited137

---------------------------------------------------------------------------
\* Properties of the request handler and of the pipeline (checked under Spec).

PathOk == request.pathname = "/webhook"
MethodOk == request.method = "POST"

Present(o) == o # None /\ o[1] # << >>

ConfigComplete ==
    /\ Present(env.RENDER_WEBHOOK_SECRET)
    /\ Present(env.RENDER_API_KEY)
    /\ Present(env.DISCORD_TOKEN)
    /\ Present(env.DISCORD_CHANNEL_ID)

Returned == pc = "returned" /\ response # None
Status == response[1].status
Evaluated(c) == \E i \in 1..Len(checks) : checks[i] = c
Issued(kind) == \E i \in 1..Len(outbound) : outbound[i].kind = kind
Settled(kind) == \E i \in 1..Len(results) : results[i].kind = kind
Count(kind) == Cardinality({i \in 1..Len(outbound) : outbound[i].kind = kind})

\* Nothing was dispatched: no pipeline, no outbound call.
NothingDispatched ==
    /\ ~scheduled
    /\ hwPromise = "none"
    /\ hwPc = "idle"
    /\ outbound = << >>
    /\ pending = {}

\* C1: a request for another path gets 404 and a request for /webhook with
\* another method gets 405; in both cases the body is never read, the
\* signature never verified, the pipeline never scheduled and no outbound call
\* made.
C1_RouteRejection ==
    /\ ~PathOk => (Returned => Status = 404)
    /\ (PathOk /\ ~MethodOk) => (Returned => Status = 405)
    /\ (~PathOk \/ ~MethodOk) =>
            /\ pc # "awaitText"
            /\ ~Evaluated("body") /\ ~Evaluated("verify") /\ ~Evaluated("parse")
            /\ NothingDispatched

\* A GET of /webhook that is otherwise acceptable (complete configuration,
\* correctly signed JSON body) is answered 405.
C1_Witness ==
    /\ Returned /\ PathOk /\ request.method = "GET" /\ Status = 405
    /\ ConfigComplete
    /\ request.body = b_deploy
    /\ request.headers.signature = Some(Sign(key_sender, s_msg1, hdr_ts_now, b_deploy))

\* C2: a POST /webhook with one of the four required configuration values
\* missing or empty gets 500 before the body is read, with nothing dispatched,
\* whatever the body and headers; with the four present no request is rejected
\* at the configuration check, RENDER_API_URL set or not.
C2_ConfigRejection ==
    /\ (PathOk /\ MethodOk /\ ~ConfigComplete) =>
            /\ pc # "awaitText"
            /\ Returned => Status = 500
            /\ ~Evaluated("body") /\ ~Evaluated("verify")
            /\ NothingDispatched
    /\ (PathOk /\ MethodOk /\ ConfigComplete /\ Returned) =>
            checks # <<"path", "method", "config">>

\* Only DISCORD_CHANNEL_ID is empty, the request is correctly signed: 500.
C2_Witness ==
    /\ Returned /\ PathOk /\ MethodOk /\ Status = 500
    /\ env.DISCORD_CHANNEL_ID = Some(<< >>)
    /\ env.RENDER_WEBHOOK_SECRET = Some(secret_good)
    /\ Present(env.RENDER_API_KEY) /\ Present(env.DISCORD_TOKEN)
    /\ request.body = b_deploy
    /\ request.headers.signature = Some(Sign(key_sender, s_msg1, hdr_ts_now, b_deploy))

\* The signature headers are missing, outside the tolerance window or no
\* signature of the raw body under the configured secret.
SignatureBad ==
    LET h == RequiredHeaders(request)
    IN  \/ h.id = << >> \/ h.timestamp = << >> \/ h.signature = << >>
        \/ h.timestamp # hdr_ts_now
        \/ h.signature # Sign(SecretKey(env.RENDER_WEBHOOK_SECRET[1]), h.id,
                              h.timestamp, request.body)

\* The request reached signature verification.
Verifying == PathOk /\ MethodOk /\ ConfigComplete /\ Evaluated("verify")

NeverParsedNorDispatched == ~Evaluated("parse") /\ payload = None /\ NothingDispatched

\* C3 as claimed: a POST /webhook with complete configuration and bad
\* signature headers gets 400, is never parsed and nothing is dispatched.
C3_AsClaimed ==
    (Verifying /\ SignatureBad) => (Status = 400 /\ NeverParsedNorDispatched)

\* C3 (amended): a POST /webhook with complete configuration and bad
\* signature headers gets 400 when verification fails with a verification
\* error, and 500 when the verifier throws another error (the configured
\* secret cannot be decoded); in both cases the body is never parsed and
\* nothing is dispatched.
C3_SignatureRejection ==
    (Verifying /\ SignatureBad) =>
        /\ Status = IF WebhookConstructorThrows(env.RENDER_WEBHOOK_SECRET[1])
                    THEN 500 ELSE 400
        /\ NeverParsedNorDispatched

\* A body that is not the one that was signed (tampered) is answered 400.
C3_Witness ==
    /\ Verifying /\ Returned /\ Status = 400
    /\ env.RENDER_WEBHOOK_SECRET = Some(secret_good)
    /\ request.body = b_deploy
    /\ request.headers.signature = Some(Sign(key_sender, s_msg1, hdr_ts_now, b_original))

NotJson == request.body \in {b_text, b_empty}

\* C4: a request that passed path, method, configuration and signature
\* checks and whose body is no JSON gets 400 and nothing is dispatched.
C4_NotJsonRejection ==
    (Verifying /\ ~SignatureBad /\ NotJson) =>
        /\ Status = 400
        /\ Evaluated("parse")
        /\ payload = None
        /\ NothingDispatched

C4_Witness ==
    /\ Verifying /\ ~SignatureBad /\ request.body = b_text
    /\ Returned /\ Status = 400 /\ Evaluated("parse")

\* C5: once a request has passed verification and JSON parsing the response
\* is 200 {} in every later state, whatever the fetches and the POST come to,
\* and the promise handed to waitUntil is pending or fulfilled, never
\* rejected; it is fulfilled when handleWebhook has ended.
C5_Acknowledged ==
    (Evaluated("parse") /\ ~NotJson) =>
        /\ response = Some(Response("{}", 200, Some("application/json")))
        /\ scheduled
        /\ hwPromise \in {"pending", "fulfilled"}
        /\ hwPc = "done" => hwPromise = "fulfilled"

\* A payload without a type: formatting throws, the error is caught, the
\* promise is fulfilled and the response is 200.
C5_Witness ==
    /\ hwPc = "done" /\ hwPromise = "fulfilled"
    /\ payload # None /\ ~payload[1].isNull /\ payload[1].type = None
    /\ \E i \in 1..Len(logged) : logged[i] = "send"
    /\ Status = 200

\* C6 as claimed: every rejection (400, 404, 405, 500) has an empty body and
\* only the 200 response has a body, {} with Content-Type application/json.
C6_AsClaimed ==
    Returned =>
        /\ Status \in {400, 404, 405, 500} => response[1].body = ""
        /\ Status = 200 => /\ response[1].body = "{}"
                           /\ response[1].contentType = Some("application/json")
        /\ response[1].body # "" => Status = 200

\* C6 (amended): the 400 and 500 rejections have an empty body, the 404
\* rejection has the body "Not Found" and the 405 rejection the body "Method
\* Not Allowed"; the 200 response has the body {} with Content-Type
\* application/json, and no other response sets a Content-Type.
C6_Bodies ==
    Returned =>
        /\ Status \in {200, 400, 404, 405, 500}
        /\ Status \in {400, 500} => response[1].body = ""
        /\ Status = 404 => response[1].body = "Not Found"
        /\ Status = 405 => response[1].body = "Method Not Allowed"
        /\ Status = 200 => response[1].body = "{}"
        /\ response[1].contentType =
                IF Status = 200 THEN Some("application/json") ELSE None

C6_Witness == Returned /\ Status = 404 /\ response[1].body = "Not Found"

\* C7 as claimed: the event fetch is issued without waiting for the service
\* fetch, so whenever the service GET is outstanding the event GET has been
\* issued too.
C7_AsClaimed == "service" \in pending => Issued("event")

\* C7 (amended): the two fetches of one pipeline run one after the other: the
\* service GET and the event GET are never outstanding at the same time, and
\* the event GET is issued only after the service fetch has settled.
C7_Sequential ==
    /\ ~("service" \in pending /\ "event" \in pending)
    /\ Issued("event") => Settled("service")
    /\ Cardinality(pending) <= 1

\* The event GET is outstanding after the service fetch failed.
C7_Witness ==
    /\ "event" \in pending
    /\ service = None
    /\ \E i \in 1..Len(results) :
            results[i].kind = "service" /\ results[i].upstream.kind = "notok"

\* The payload has the shape of WebhookPayload: a type, and data with id and
\* serviceId.
WellFormed(p) ==
    /\ ~p.isNull
    /\ p.type # None
    /\ p.data # None
    /\ p.data[1].id # None
    /\ p.data[1].serviceId # None

\* What a fetch left in handleWebhook's local: the fetched object, or null.
Fetched(kind) ==
    LET i == CHOOSE k \in 1..Len(results) : results[k].kind = kind
        up == results[i].upstream
    IN  IF up.kind = "ok" THEN up.json ELSE None

\* C8: for an acknowledged webhook with a well-formed payload no call is made
\* twice, and when handleWebhook has ended each fetch was attempted once and
\* one POST was made to Discord, whatever the fetches and the POST came to,
\* its message built from the fetched objects with null for a missing one.
C8_AsClaimed ==
    (payload # None /\ WellFormed(payload[1])) =>
        /\ Count("service") <= 1 /\ Count("event") <= 1 /\ Count("discord") <= 1
        /\ hwPc = "done" =>
            /\ Count("service") = 1 /\ Count("event") = 1 /\ Count("discord") = 1
            /\ outbound[3].body =
                    Some(DiscordPayload(payload[1], Fetched("service"), Fetched("event")))

\* The Discord POST of the pipeline, once issued.
DiscordCall == outbound[CHOOSE i \in 1..Len(outbound) : outbound[i].kind = "discord"]

\* C11: the Discord POST is issued only after the service fetch and the event
\* fetch have both settled, never while one of them is outstanding, and its
\* message is composed from what they settled to (the fetched object, or null
\* for a fetch that failed).
C11_PostAfterFetches ==
    Issued("discord") =>
        /\ Settled("service") /\ Settled("event")
        /\ "service" \notin pending /\ "event" \notin pending
        /\ service = Fetched("service") /\ event = Fetched("event")
        /\ DiscordCall.body =
                Some(DiscordPayload(payload[1], Fetched("service"), Fetched("event")))

\* The POST is outstanding after the service fetch failed and the event fetch
\* returned an event with details.
C11_Witness ==
    /\ "discord" \in pending
    /\ Fetched("service") = None
    /\ Fetched("event") # None /\ DetailsOf(Fetched("event")) # None

\* The checkpoints of the handler, in the order of the code.
CheckOrder == <<"path", "method", "config", "body", "verify", "parse">>

\* The response a returned request must carry: that of the first checkpoint
\* that fails, the checkpoints after it not evaluated.
FirstFailureDecides ==
    LET n == Len(checks)
        otherError == WebhookConstructorThrows(env.RENDER_WEBHOOK_SECRET[1])
    IN  /\ n \in 1..6
        /\ n = 1 <=> ~PathOk
        /\ n = 2 <=> (PathOk /\ ~MethodOk)
        /\ n = 3 <=> (PathOk /\ MethodOk /\ ~ConfigComplete)
        /\ n >= 5 => (n = 5 <=> SignatureBad)
        /\ Status = CASE n = 1 -> 404
                      [] n = 2 -> 405
                      [] n = 3 -> 500
                      [] n = 4 -> 400
                      [] n = 5 -> IF otherError THEN 500 ELSE 400
                      [] n = 6 -> IF NotJson THEN 400 ELSE 200

C12_State ==
    /\ checks = SubSeq(CheckOrder, 1, Len(checks))
    /\ response # None <=> pc = "returned"
    /\ scheduled <=> (response # None /\ Status = 200)
    /\ Returned => FirstFailureDecides

\* Once the response exists, neither it nor the checkpoints evaluated nor the
\* scheduling of the pipeline change.
C12_Step ==
    response # None =>
        /\ response' = response
        /\ checks' = checks
        /\ scheduled' = scheduled

\* The runtime runs the handler it has invoked, and the read of the request
\* body settles: it resolves or it rejects.
SpecFair ==
    /\ Spec
    /\ WF_vars(FetchStart)
    /\ WF_vars(FetchBodyRead \/ FetchBodyFails)

\* C12: a request gets one response, that of the first failing checkpoint in
\* the order path (404), method (405), configuration (500), body read (400),
\* verification (400 for a verification error, 500 for another error), JSON
\* parse (400), else 200; the checkpoints are evaluated in that order and none
\* after the one that fails; the pipeline is scheduled exactly when the
\* response is 200, in the step that returns it and never afterwards.  Under
\* SpecFair every request comes to its response.
C12_Checkpoints == [](C12_State) /\ [][C12_Step]_vars /\ <>(response # None)

\* A badly signed request (no signature headers) with DISCORD_TOKEN missing
\* is answered 500 at the configuration check, not 400.
C12_Witness ==
    /\ Returned /\ PathOk /\ MethodOk /\ Status = 500
    /\ env.DISCORD_TOKEN = None
    /\ request.headers = Headers(None, None, None)
    /\ checks = <<"path", "method", "config">>

=============================================================================
